---- MODULE Spec2Model ----
(***************************************************************************)
(* A model of basenc (src/tools/basenc/basenc.c): the block codecs of the  *)
(* eight schemes, the wrap writer and the two stream drivers.              *)
(*                                                                         *)
(* Characters and bytes are their numeric codes (0..255).  A C array is a  *)
(* sequence; the C index k is the sequence index k + 1.  A C loop is a     *)
(* step operator (the loop test followed by the loop body) iterated by Run *)
(* until the test fails.  exit_with_error is a result whose err field      *)
(* holds the message.                                                      *)
(***************************************************************************)
EXTENDS Integers, Sequences, FiniteSets, TLC

VARIABLES
    pc,              \* position of the process in main / do_encode / do_decode
    decode,          \* params.decode
    ignore_garbage,  \* params.ignore_garbage
    wrap_column,     \* params.wrap_column
    encoding_type,   \* params.encoding_type
    input,           \* everything the source stream holds at the start
    source,          \* what has not been read from the stream `in' yet
    in_eof,          \* feof(in)
    in_err,          \* ferror(in)
    in_open,         \* `in' has not been closed
    inbuf,           \* the bytes of the chunk read last
    sum,             \* the number of bytes of that chunk
    outbuf,          \* the block codec's result for that chunk
    current_column,  \* the wrap writer's column counter
    sink,            \* everything written to the stream `out'
    stderr,          \* the message exit_with_error printed, "" if none
    written,         \* what the last wrap_write did: [out, current_column, err]
    exit_status      \* "running", "EXIT_SUCCESS" or "EXIT_FAILURE"

vars == <<pc, decode, ignore_garbage, wrap_column, encoding_type, input, source,
          in_eof, in_err, in_open, inbuf, sum, outbuf, current_column, sink,
          stderr, written, exit_status>>

(***************************************************************************)
(* Program constants                                                       *)
(***************************************************************************)
ENC_BLOCKSIZE == 1024 * 3 * 10
DEC_BLOCKSIZE == 1024 * 5

ENC_BASE64 == 1
ENC_BASE64URL == 2
ENC_BASE32 == 3
ENC_BASE32HEX == 4
ENC_BASE16 == 5
ENC_BASE2MSBF == 6
ENC_BASE2LSBF == 7
ENC_Z85 == 8

EncodingTypes == ENC_BASE64..ENC_Z85

(***************************************************************************)
(* C arithmetic on non-negative integers                                   *)
(***************************************************************************)
Min(a, b) == IF a < b THEN a ELSE b

Max(a, b) == IF a > b THEN a ELSE b

RECURSIVE Pow2(_)
Pow2(k) == IF k = 0 THEN 1 ELSE 2 * Pow2(k - 1)

\* x << k and x >> k
Shl(x, k) == x * Pow2(k)

Shr(x, k) == x \div Pow2(k)

\* a & b
RECURSIVE BitAnd(_, _)
BitAnd(a, b) ==
    IF a = 0 \/ b = 0 THEN 0
    ELSE (a % 2) * (b % 2) + 2 * BitAnd(a \div 2, b \div 2)

\* a | b
RECURSIVE BitOr(_, _)
BitOr(a, b) ==
    IF a = 0 THEN b
    ELSE IF b = 0 THEN a
    ELSE (IF a % 2 = 1 \/ b % 2 = 1 THEN 1 ELSE 0) + 2 * BitOr(a \div 2, b \div 2)

\* the value an int has once stored in an unsigned char
U8(x) == IF x < 0 THEN 256 + x ELSE x % 256

\* buf[k], k a C index
At(buf, k) == buf[k + 1]

\* strchr(s, c) - s on a NUL-terminated array s; -1 for NULL.  The
\* terminator is part of the string: strchr(s, 0) finds it.
StrChr(s, c) ==
    IF \E k \in 1..Len(s) : s[k] = c
    THEN (CHOOSE k \in 1..Len(s) : s[k] = c /\ \A m \in 1..(k - 1) : s[m] # c) - 1
    ELSE IF c = 0 THEN Len(s) ELSE -1

\* toupper, isalnum, isxdigit in the "C" locale
ToUpper(c) == IF c >= 97 /\ c <= 122 THEN c - 32 ELSE c

IsAlnum(c) == (c >= 48 /\ c <= 57) \/ (c >= 65 /\ c <= 90) \/ (c >= 97 /\ c <= 122)

\* The stores  if (j < outlen) { out[j++] = x; out_len++; }  done for each x
\* of syms in turn: what is stored.
Put(j, outlen, syms) == SubSeq(syms, 1, Max(0, Min(Len(syms), outlen - j)))

(***************************************************************************)
(* Alphabets                                                               *)
(***************************************************************************)
\* "ABCDEFGHIJKLMNOPQRSTUVWXYZabcdefghijklmnopqrstuvwxyz0123456789+/"
base64_chars ==
    <<65, 66, 67, 68, 69, 70, 71, 72, 73, 74, 75, 76, 77, 78, 79, 80, 81, 82,
      83, 84, 85, 86, 87, 88, 89, 90, 97, 98, 99, 100, 101, 102, 103, 104, 105,
      106, 107, 108, 109, 110, 111, 112, 113, 114, 115, 116, 117, 118, 119,
      120, 121, 122, 48, 49, 50, 51, 52, 53, 54, 55, 56, 57, 43, 47>>

\* "ABCDEFGHIJKLMNOPQRSTUVWXYZabcdefghijklmnopqrstuvwxyz0123456789-_"
base64url_chars ==
    <<65, 66, 67, 68, 69, 70, 71, 72, 73, 74, 75, 76, 77, 78, 79, 80, 81, 82,
      83, 84, 85, 86, 87, 88, 89, 90, 97, 98, 99, 100, 101, 102, 103, 104, 105,
      106, 107, 108, 109, 110, 111, 112, 113, 114, 115, 116, 117, 118, 119,
      120, 121, 122, 48, 49, 50, 51, 52, 53, 54, 55, 56, 57, 45, 95>>

\* "ABCDEFGHIJKLMNOPQRSTUVWXYZ234567"
base32_chars ==
    <<65, 66, 67, 68, 69, 70, 71, 72, 73, 74, 75, 76, 77, 78, 79, 80, 81, 82,
      83, 84, 85, 86, 87, 88, 89, 90, 50, 51, 52, 53, 54, 55>>

\* "0123456789ABCDEFGHIJKLMNOPQRSTUV"
base32hex_chars ==
    <<48, 49, 50, 51, 52, 53, 54, 55, 56, 57, 65, 66, 67, 68, 69, 70, 71, 72,
      73, 74, 75, 76, 77, 78, 79, 80, 81, 82, 83, 84, 85, 86>>

\* "0123456789ABCDEF"
hex_chars ==
    <<48, 49, 50, 51, 52, 53, 54, 55, 56, 57, 65, 66, 67, 68, 69, 70>>

\* "0123456789" "abcdefghijklmnopqrstuvwxyz" "ABCDEFGHIJKLMNOPQRSTUVWXYZ"
\* ".-:+=^!/*?&<>()[]{}@%$#"
z85_encoding_chars ==
    <<48, 49, 50, 51, 52, 53, 54, 55, 56, 57,
      97, 98, 99, 100, 101, 102, 103, 104, 105, 106, 107, 108, 109, 110, 111,
      112, 113, 114, 115, 116, 117, 118, 119, 120, 121, 122,
      65, 66, 67, 68, 69, 70, 71, 72, 73, 74, 75, 76, 77, 78, 79, 80, 81, 82,
      83, 84, 85, 86, 87, 88, 89, 90,
      46, 45, 58, 43, 61, 94, 33, 47, 42, 63, 38, 60, 62, 40, 41, 91, 93, 123,
      125, 64, 37, 36, 35>>

\* The initializer list of z85_decoding_table, row by row as written.  It has
\* 94 values for an array of 93: the compiler drops the excess one.
z85_decoding_initializers ==
    <<68, -1, 84, 83, 82, 72, -1, 75, 76, 70, 65, -1, 63, 62, 69,
       0,  1,  2,  3,  4,  5,  6,  7,  8,  9, 64, -1, 73, 66, 74, 71,
      36, 37, 38, 39, 40, 41, 42, 43, 44, 45, 46, 47, 48, 49, 50, 51,
      52, 53, 54, 55, 56, 57, 58, 59, 60, 61, 77, -1, 78, 67, -1, -1,
      10, 11, 12, 13, 14, 15, 16, 17, 18, 19, 20, 21, 22, 23, 24, 25,
      26, 27, 28, 29, 30, 31, 32, 33, 34, 35, 79, -1, 80, -1, -1>>

z85_decoding_table == SubSeq(z85_decoding_initializers, 1, 93)

(***************************************************************************)
(* Character classes and symbol values                                     *)
(***************************************************************************)
is_base64(c) == IsAlnum(c) \/ c = 43 \/ c = 47

is_base64url(c) == IsAlnum(c) \/ c = 45 \/ c = 95

base64_char_to_value(c) ==
    IF c >= 65 /\ c <= 90 THEN c - 65
    ELSE IF c >= 97 /\ c <= 122 THEN c - 97 + 26
    ELSE IF c >= 48 /\ c <= 57 THEN c - 48 + 52
    ELSE IF c = 43 THEN 62
    ELSE IF c = 47 THEN 63
    ELSE -1

base64url_char_to_value(c) ==
    IF c >= 65 /\ c <= 90 THEN c - 65
    ELSE IF c >= 97 /\ c <= 122 THEN c - 97 + 26
    ELSE IF c >= 48 /\ c <= 57 THEN c - 48 + 52
    ELSE IF c = 45 THEN 62
    ELSE IF c = 95 THEN 63
    ELSE -1

is_base32(c, alphabet) == StrChr(alphabet, ToUpper(c)) # -1

base32_char_to_value(c, alphabet) == StrChr(alphabet, ToUpper(c))

base16_char_to_value(c) ==
    IF c >= 48 /\ c <= 57 THEN c - 48
    ELSE IF c >= 65 /\ c <= 70 THEN c - 65 + 10
    ELSE IF c >= 97 /\ c <= 102 THEN c - 97 + 10
    ELSE -1

is_base2(c) == c = 48 \/ c = 49

is_z85(c) == c >= 33 /\ c <= 125 /\ At(z85_decoding_table, c - 33) # -1

(***************************************************************************)
(* Loop states.  Every loop state has halt (the loop has ended), err (the  *)
(* message of exit_with_error, "" while none was raised) and w (what the   *)
(* step stored into out).                                                  *)
(***************************************************************************)
Halt(s) == [s EXCEPT !.halt = TRUE, !.w = <<>>]

Exit(s, message) == [s EXCEPT !.halt = TRUE, !.w = <<>>, !.err = message]

(***************************************************************************)
(* Base64                                                                  *)
(***************************************************************************)
\* char_array_4 computed from char_array_3
base64_quad(a3) ==
    << Shr(BitAnd(a3[1], 252), 2),
       U8(Shl(BitAnd(a3[1], 3), 4) + Shr(BitAnd(a3[2], 240), 4)),
       U8(Shl(BitAnd(a3[2], 15), 2) + Shr(BitAnd(a3[3], 192), 6)),
       BitAnd(a3[3], 63) >>

\* char_array_3 computed from char_array_4
base64_triple(a4) ==
    << U8(Shl(a4[1], 2) + Shr(BitAnd(a4[2], 48), 4)),
       U8(Shl(BitAnd(a4[2], 15), 4) + Shr(BitAnd(a4[3], 60), 2)),
       U8(Shl(BitAnd(a4[3], 3), 6) + a4[4]) >>

\* one pass of  while (inlen--) { ... }  of base64_encode_block
base64_encode_step(c, s) ==
    IF s.inlen = 0 THEN Halt(s)
    ELSE LET a3 == [s.a3 EXCEPT ![s.i + 1] = At(c.in, s.p)]
         IN  IF s.i + 1 = 3
             THEN LET a4 == base64_quad(a3)
                      w == Put(s.j, c.outlen, [k \in 1..4 |-> At(c.charset, a4[k])])
                  IN  [s EXCEPT !.inlen = @ - 1, !.p = @ + 1, !.a3 = a3,
                                !.i = 0, !.j = @ + Len(w), !.w = w]
             ELSE [s EXCEPT !.inlen = @ - 1, !.p = @ + 1, !.a3 = a3,
                            !.i = @ + 1, !.w = <<>>]

\* the  if (i) { ... }  that follows the loop of base64_encode_block
base64_encode_tail(c, s) ==
    IF s.i = 0 THEN <<>>
    ELSE LET a3 == [k \in 1..3 |-> IF k <= s.i THEN s.a3[k] ELSE 0]
             a4 == base64_quad(a3)
             w1 == Put(s.j, c.outlen, [k \in 1..(s.i + 1) |-> At(c.charset, a4[k])])
             w2 == IF c.charset = base64_chars
                   THEN Put(s.j + Len(w1), c.outlen, [k \in 1..(3 - s.i) |-> 61])
                   ELSE <<>>
         IN  w1 \o w2

\* one pass of the while loop of base64_decode_block
base64_decode_step(c, s) ==
    LET ch == At(c.in, s.k)
        is_valid_char(x) == IF c.is_url THEN is_base64url(x) ELSE is_base64(x)
        char_to_value(x) ==
            IF c.is_url THEN base64url_char_to_value(x) ELSE base64_char_to_value(x)
    IN  IF s.inlen = 0 THEN Halt(s)
        ELSE IF ch = 61 \/ ~(is_valid_char(ch) \/ c.ignore_garbage)
        THEN Halt([s EXCEPT !.inlen = @ - 1])
        ELSE IF ~is_valid_char(ch)
        THEN IF c.ignore_garbage
             THEN [s EXCEPT !.inlen = @ - 1, !.k = @ + 1, !.w = <<>>]
             ELSE Exit(s, "invalid input")
        ELSE LET a4 == [s.a4 EXCEPT ![s.i + 1] = ch]
             IN  IF s.i + 1 = 4
                 THEN LET v == [l \in 1..4 |-> U8(char_to_value(a4[l]))]
                          w == Put(s.j, c.outlen, base64_triple(v))
                      IN  [s EXCEPT !.inlen = @ - 1, !.k = @ + 1, !.a4 = v,
                                    !.i = 0, !.j = @ + Len(w), !.w = w]
                 ELSE [s EXCEPT !.inlen = @ - 1, !.k = @ + 1, !.a4 = a4,
                                !.i = @ + 1, !.w = <<>>]

\* the  if (i) { ... }  that follows the loop of base64_decode_block
base64_decode_tail(c, s) ==
    IF s.i = 0 THEN <<>>
    ELSE LET char_to_value(x) ==
                 IF c.is_url THEN base64url_char_to_value(x) ELSE base64_char_to_value(x)
             a4 == [l \in 1..4 |->
                       IF At(c.in, s.k - s.i + l - 1) # 61
                       THEN U8(char_to_value(At(c.in, s.k - s.i + l - 1)))
                       ELSE 0]
             a3 == base64_triple(a4)
         IN  Put(s.j, c.outlen, [l \in 1..(s.i - 1) |-> a3[l]])

(***************************************************************************)
(* Base32                                                                  *)
(***************************************************************************)
\* the eight symbols of one group of five bytes
base32_symbols(buffer, alphabet) ==
    << At(alphabet, BitAnd(Shr(buffer[1], 3), 31)),
       At(alphabet, BitOr(Shl(BitAnd(buffer[1], 7), 2), BitAnd(Shr(buffer[2], 6), 3))),
       At(alphabet, BitAnd(Shr(buffer[2], 1), 31)),
       At(alphabet, BitOr(Shl(BitAnd(buffer[2], 1), 4), BitAnd(Shr(buffer[3], 4), 15))),
       At(alphabet, BitOr(Shl(BitAnd(buffer[3], 15), 1), BitAnd(Shr(buffer[4], 7), 1))),
       At(alphabet, BitAnd(Shr(buffer[4], 2), 31)),
       At(alphabet, BitOr(Shl(BitAnd(buffer[4], 3), 3), BitAnd(Shr(buffer[5], 5), 7))),
       At(alphabet, BitAnd(buffer[5], 31)) >>

\* the  switch (inlen % 5)  that pads the last group
base32_padding(inlen, index, outlen) ==
    CASE inlen % 5 = 1 ->
             IF index > 2 /\ index <= outlen
             THEN Put(index, outlen, [j \in 1..6 |-> 61]) ELSE <<>>
      [] inlen % 5 = 2 ->
             IF index > 4 /\ index <= outlen
             THEN Put(index, outlen, [j \in 1..4 |-> 61]) ELSE <<>>
      [] inlen % 5 = 3 ->
             IF index > 5 /\ index <= outlen
             THEN Put(index, outlen, [j \in 1..3 |-> 61]) ELSE <<>>
      [] inlen % 5 = 4 ->
             IF index > 7 /\ index <= outlen THEN <<61>> ELSE <<>>
      [] OTHER -> <<>>

\* one pass of  while (i < inlen) { ... }  of base32_encode_block
base32_encode_step(c, s) ==
    IF ~(s.i < c.inlen) THEN Halt(s)
    ELSE LET buffer_size == Min(5, c.inlen - s.i)
             buffer == [k \in 1..5 |->
                           IF k <= buffer_size THEN At(c.in, s.i + k - 1) ELSE 0]
             i == s.i + buffer_size
             w1 == Put(s.index, c.outlen, base32_symbols(buffer, c.alphabet))
             w2 == IF i >= c.inlen
                   THEN base32_padding(c.inlen, s.index + Len(w1), c.outlen)
                   ELSE <<>>
         IN  [s EXCEPT !.i = i, !.index = @ + Len(w1) + Len(w2), !.w = w1 \o w2]

\* the five bytes of a full group of eight values
base32_bytes(buffer) ==
    << U8(BitOr(Shl(buffer[1], 3), Shr(buffer[2], 2))),
       U8(BitOr(BitOr(Shl(buffer[2], 6), Shl(buffer[3], 1)), Shr(buffer[4], 4))),
       U8(BitOr(Shl(buffer[4], 4), Shr(buffer[5], 1))),
       U8(BitOr(BitOr(Shl(buffer[5], 7), Shl(buffer[6], 2)), Shr(buffer[7], 3))),
       U8(BitOr(Shl(buffer[7], 5), buffer[8])) >>

\* one pass of  while (i < inlen) { ... }  of base32_decode_block
base32_decode_step(c, s) ==
    IF ~(s.i < c.inlen) THEN Halt(s)
    ELSE LET ch == At(c.in, s.i)
             value == base32_char_to_value(ch, c.alphabet)
         IN  IF ch = 10 \/ ch = 13 THEN [s EXCEPT !.i = @ + 1, !.w = <<>>]
             ELSE IF ch = 61 THEN [s EXCEPT !.i = @ + 1, !.w = <<>>]
             ELSE IF value = -1
             THEN IF c.ignore_garbage
                  THEN [s EXCEPT !.i = @ + 1, !.w = <<>>]
                  ELSE Exit(s, "invalid input")
             ELSE LET buffer == [s.buffer EXCEPT ![s.buffer_size + 1] = U8(value)]
                  IN  IF s.buffer_size + 1 = 8
                      THEN LET w == Put(s.j, c.outlen, base32_bytes(buffer))
                           IN  [s EXCEPT !.i = @ + 1, !.buffer = buffer,
                                         !.buffer_size = 0, !.j = @ + Len(w), !.w = w]
                      ELSE [s EXCEPT !.i = @ + 1, !.buffer = buffer,
                                     !.buffer_size = @ + 1, !.w = <<>>]

\* the  if (buffer_size > 0) { ... }  that follows the loop of base32_decode_block
base32_decode_tail(c, s) ==
    IF s.buffer_size = 0 THEN <<>>
    ELSE LET buffer == [k \in 1..8 |-> IF k <= s.buffer_size THEN s.buffer[k] ELSE 0]
             b == base32_bytes(buffer)
             w1 == IF s.buffer_size >= 2 THEN Put(s.j, c.outlen, <<b[1]>>) ELSE <<>>
             w2 == IF s.buffer_size >= 4
                   THEN Put(s.j + Len(w1), c.outlen, <<b[2]>>) ELSE <<>>
             w3 == IF s.buffer_size >= 5
                   THEN Put(s.j + Len(w1) + Len(w2), c.outlen, <<b[3]>>) ELSE <<>>
             w4 == IF s.buffer_size >= 7
                   THEN Put(s.j + Len(w1) + Len(w2) + Len(w3), c.outlen, <<b[4]>>)
                   ELSE <<>>
         IN  w1 \o w2 \o w3 \o w4

(***************************************************************************)
(* Base16                                                                  *)
(***************************************************************************)
\* one pass of the for loop of base16_encode_block
base16_encode_step(c, s) ==
    IF ~(s.i < c.inlen /\ s.j + 1 < c.outlen) THEN Halt(s)
    ELSE LET w == << At(hex_chars, BitAnd(Shr(At(c.in, s.i), 4), 15)),
                     At(hex_chars, BitAnd(At(c.in, s.i), 15)) >>
         IN  [s EXCEPT !.i = @ + 1, !.j = @ + 2, !.w = w]

\* one pass of the for loop of base16_decode_block
base16_decode_step(c, s) ==
    IF ~(s.i + 1 < c.inlen /\ s.j < c.outlen) THEN Halt(s)
    ELSE LET high == base16_char_to_value(At(c.in, s.i))
             low == base16_char_to_value(At(c.in, s.i + 1))
             skip == [s EXCEPT !.i = @ + 1, !.w = <<>>]
         IN  IF At(c.in, s.i) = 10 \/ At(c.in, s.i) = 13 THEN skip
             ELSE IF high = -1
             THEN IF c.ignore_garbage THEN skip ELSE Exit(s, "invalid input")
             ELSE IF At(c.in, s.i + 1) = 10 \/ At(c.in, s.i + 1) = 13 THEN skip
             ELSE IF low = -1
             THEN IF c.ignore_garbage THEN skip ELSE Exit(s, "invalid input")
             ELSE [s EXCEPT !.i = @ + 2, !.j = @ + 1,
                            !.w = <<U8(BitOr(Shl(high, 4), low))>>]

(***************************************************************************)
(* Base2                                                                   *)
(***************************************************************************)
\* one pass of the for loop of base2_encode_block, were msb_first not looked at
base2_encode_step_msbf(c, s) ==
    IF ~(s.i < c.inlen /\ s.j + 7 < c.outlen) THEN Halt(s)
    ELSE LET byte == At(c.in, s.i)
             digit(bit) == IF BitAnd(Shr(byte, bit), 1) # 0 THEN 49 ELSE 48
         IN  [s EXCEPT !.i = @ + 1, !.j = @ + 8, !.w = [k \in 1..8 |-> digit(8 - k)]]

\* one pass of the for loop of base2_encode_block
base2_encode_step(c, s) ==
    IF ~(s.i < c.inlen /\ s.j + 7 < c.outlen) THEN Halt(s)
    ELSE LET byte == At(c.in, s.i)
             digit(bit) == IF BitAnd(Shr(byte, bit), 1) # 0 THEN 49 ELSE 48
             w == IF c.msb_first
                  THEN [k \in 1..8 |-> digit(8 - k)]
                  ELSE [k \in 1..8 |-> digit(k - 1)]
         IN  [s EXCEPT !.i = @ + 1, !.j = @ + 8, !.w = w]

\* one pass of the for loop of base2_decode_block
base2_decode_step(c, s) ==
    IF ~(s.i < c.inlen /\ s.j < c.outlen) THEN Halt(s)
    ELSE LET ch == At(c.in, s.i)
             bit == IF ch = 49 THEN 1 ELSE 0
             byte == IF c.msb_first
                     THEN U8(BitOr(Shl(s.byte, 1), bit))
                     ELSE U8(BitOr(s.byte, Shl(bit, s.bit_count)))
         IN  IF ch = 10 \/ ch = 13 THEN [s EXCEPT !.i = @ + 1, !.w = <<>>]
             ELSE IF ~is_base2(ch)
             THEN IF c.ignore_garbage
                  THEN [s EXCEPT !.i = @ + 1, !.w = <<>>]
                  ELSE Exit(s, "invalid input")
             ELSE IF s.bit_count + 1 = 8
             THEN [s EXCEPT !.i = @ + 1, !.j = @ + 1, !.byte = 0, !.bit_count = 0,
                            !.w = <<byte>>]
             ELSE [s EXCEPT !.i = @ + 1, !.byte = byte, !.bit_count = @ + 1,
                            !.w = <<>>]

(***************************************************************************)
(* Z85.  An unsigned int is its four bytes, most significant first.        *)
(***************************************************************************)
\* value / 85 and value % 85
Div85(value) ==
    LET c1 == value[1]
        c2 == (c1 % 85) * 256 + value[2]
        c3 == (c2 % 85) * 256 + value[3]
        c4 == (c3 % 85) * 256 + value[4]
    IN  [quot |-> <<c1 \div 85, c2 \div 85, c3 \div 85, c4 \div 85>>, rem |-> c4 % 85]

\* value * 85 + digit, in 32 bits
MulAdd85(value, digit) ==
    LET t4 == value[4] * 85 + digit
        t3 == value[3] * 85 + t4 \div 256
        t2 == value[2] * 85 + t3 \div 256
        t1 == value[1] * 85 + t2 \div 256
    IN  <<t1 % 256, t2 % 256, t3 % 256, t4 % 256>>

\* the five symbols of one group of four bytes:
\* for (k = 4; k >= 0; k--) { out[j+k] = z85_encoding_chars[value % 85]; value /= 85; }
z85_symbols(value) ==
    LET v4 == Div85(value)
        v3 == Div85(v4.quot)
        v2 == Div85(v3.quot)
        v1 == Div85(v2.quot)
        v0 == Div85(v1.quot)
    IN  << At(z85_encoding_chars, v0.rem), At(z85_encoding_chars, v1.rem),
           At(z85_encoding_chars, v2.rem), At(z85_encoding_chars, v3.rem),
           At(z85_encoding_chars, v4.rem) >>

\* one pass of the for loop of z85_encode_block
z85_encode_step(c, s) ==
    IF ~(s.i + 3 < c.inlen /\ s.j + 4 < c.outlen) THEN Halt(s)
    ELSE LET value == << At(c.in, s.i), At(c.in, s.i + 1),
                         At(c.in, s.i + 2), At(c.in, s.i + 3) >>
         IN  [s EXCEPT !.i = @ + 4, !.j = @ + 5, !.w = z85_symbols(value)]

\* the four bytes of a full group of five values
z85_bytes(buffer) ==
    MulAdd85(MulAdd85(MulAdd85(MulAdd85(MulAdd85(<<0, 0, 0, 0>>,
        buffer[1]), buffer[2]), buffer[3]), buffer[4]), buffer[5])

\* one pass of the for loop of z85_decode_block
z85_decode_step(c, s) ==
    IF ~(s.i < c.inlen /\ s.j + 3 < c.outlen) THEN Halt(s)
    ELSE LET ch == At(c.in, s.i)
         IN  IF ch = 10 \/ ch = 13 THEN [s EXCEPT !.i = @ + 1, !.w = <<>>]
             ELSE IF ~is_z85(ch)
             THEN IF c.ignore_garbage
                  THEN [s EXCEPT !.i = @ + 1, !.w = <<>>]
                  ELSE Exit(s, "invalid input")
             ELSE LET buffer == [s.buffer EXCEPT ![s.buffer_size + 1] =
                                    U8(At(z85_decoding_table, ch - 33))]
                  IN  IF s.buffer_size + 1 = 5
                      THEN [s EXCEPT !.i = @ + 1, !.buffer = buffer, !.buffer_size = 0,
                                     !.j = @ + 4, !.w = z85_bytes(buffer)]
                      ELSE [s EXCEPT !.i = @ + 1, !.buffer = buffer,
                                     !.buffer_size = @ + 1, !.w = <<>>]

(***************************************************************************)
(* The wrap writer.  The stream `out' takes budget more writes (fputc      *)
(* calls, or bytes of an fwrite) before it fails; a negative budget: it    *)
(* does not fail.                                                          *)
(***************************************************************************)
\* one pass of the for loop of wrap_write, were the line broken a symbol late
\* (current_column > wrap_column)
wrap_write_step_late(c, s) ==
    IF ~(s.i < c.len) THEN Halt(s)
    ELSE LET break == s.current_column > c.wrap_column
             budget == IF break /\ s.budget > 0 THEN s.budget - 1 ELSE s.budget
             column == IF break THEN 0 ELSE s.current_column
             w == IF break THEN <<10>> ELSE <<>>
         IN  IF break /\ s.budget = 0 THEN Exit(s, "write error")
             ELSE IF budget = 0
             THEN [s EXCEPT !.halt = TRUE, !.err = "write error",
                            !.current_column = column, !.budget = budget, !.w = w]
             ELSE [s EXCEPT !.i = @ + 1, !.current_column = column + 1,
                            !.budget = IF budget > 0 THEN budget - 1 ELSE budget,
                            !.w = w \o <<At(c.buffer, s.i)>>]

\* one pass of the for loop of wrap_write
wrap_write_step(c, s) ==
    IF ~(s.i < c.len) THEN Halt(s)
    ELSE LET break == s.current_column >= c.wrap_column
             budget == IF break /\ s.budget > 0 THEN s.budget - 1 ELSE s.budget
             column == IF break THEN 0 ELSE s.current_column
             w == IF break THEN <<10>> ELSE <<>>
         IN  IF break /\ s.budget = 0 THEN Exit(s, "write error")
             ELSE IF budget = 0
             THEN [s EXCEPT !.halt = TRUE, !.err = "write error",
                            !.current_column = column, !.budget = budget, !.w = w]
             ELSE [s EXCEPT !.i = @ + 1, !.current_column = column + 1,
                            !.budget = IF budget > 0 THEN budget - 1 ELSE budget,
                            !.w = w \o <<At(c.buffer, s.i)>>]

(***************************************************************************)
(* Running a loop                                                          *)
(***************************************************************************)
LoopStep(fn, c, s) ==
    CASE fn = "base64_encode_block" -> base64_encode_step(c, s)
      [] fn = "base64_decode_block" -> base64_decode_step(c, s)
      [] fn = "base32_encode_block" -> base32_encode_step(c, s)
      [] fn = "base32_decode_block" -> base32_decode_step(c, s)
      [] fn = "base16_encode_block" -> base16_encode_step(c, s)
      [] fn = "base16_decode_block" -> base16_decode_step(c, s)
      [] fn = "base2_encode_block" -> base2_encode_step(c, s)
      [] fn = "base2_decode_block" -> base2_decode_step(c, s)
      [] fn = "z85_encode_block" -> z85_encode_step(c, s)
      [] fn = "z85_decode_block" -> z85_decode_step(c, s)
      [] fn = "wrap_write" -> wrap_write_step(c, s)

\* At most n passes of the loop fn from state s: the state reached, its w
\* holding everything the passes stored, in order.
RECURSIVE Run(_, _, _, _)
Run(fn, c, s, n) ==
    IF s.halt THEN Halt(s)
    ELSE IF n <= 1 THEN LoopStep(fn, c, s)
    ELSE LET a == Run(fn, c, s, n \div 2)
             b == Run(fn, c, a, n - (n \div 2))
         IN  [b EXCEPT !.w = a.w \o b.w]

(***************************************************************************)
(* The block codecs.  Each yields [out, err]: out is out[0 .. out_len),    *)
(* err the message of exit_with_error or "".                               *)
(***************************************************************************)
base64_encode_block(in, inlen, outlen, charset) ==
    LET c == [in |-> in, outlen |-> outlen, charset |-> charset]
        s0 == [inlen |-> inlen, p |-> 0, i |-> 0, j |-> 0, a3 |-> <<0, 0, 0>>,
               halt |-> FALSE, err |-> "", w |-> <<>>]
        s == Run("base64_encode_block", c, s0, inlen + 1)
    IN  [out |-> s.w \o base64_encode_tail(c, s), err |-> ""]

base64_decode_block(in, inlen, outlen, is_url, ignore_garbage_) ==
    LET c == [in |-> in, outlen |-> outlen, is_url |-> is_url,
              ignore_garbage |-> ignore_garbage_]
        s0 == [inlen |-> inlen, k |-> 0, i |-> 0, j |-> 0, a4 |-> <<0, 0, 0, 0>>,
               halt |-> FALSE, err |-> "", w |-> <<>>]
        s == Run("base64_decode_block", c, s0, inlen + 1)
    IN  IF s.err # "" THEN [out |-> s.w, err |-> s.err]
        ELSE [out |-> s.w \o base64_decode_tail(c, s),
              err |-> ""]

base32_encode_block(in, inlen, outlen, alphabet) ==
    LET c == [in |-> in, inlen |-> inlen, outlen |-> outlen, alphabet |-> alphabet]
        s0 == [i |-> 0, index |-> 0, halt |-> FALSE, err |-> "", w |-> <<>>]
        s == Run("base32_encode_block", c, s0, inlen + 1)
    IN  [out |-> s.w, err |-> ""]

base32_decode_block(in, inlen, outlen, alphabet, ignore_garbage_) ==
    LET c == [in |-> in, inlen |-> inlen, outlen |-> outlen, alphabet |-> alphabet,
              ignore_garbage |-> ignore_garbage_]
        s0 == [i |-> 0, j |-> 0, buffer |-> <<0, 0, 0, 0, 0, 0, 0, 0>>,
               buffer_size |-> 0, halt |-> FALSE, err |-> "", w |-> <<>>]
        s == Run("base32_decode_block", c, s0, inlen + 1)
    IN  IF s.err # "" THEN [out |-> s.w, err |-> s.err]
        ELSE [out |-> s.w \o base32_decode_tail(c, s),
              err |-> ""]

base16_encode_block(in, inlen, outlen) ==
    LET c == [in |-> in, inlen |-> inlen, outlen |-> outlen]
        s0 == [i |-> 0, j |-> 0, halt |-> FALSE, err |-> "", w |-> <<>>]
        s == Run("base16_encode_block", c, s0, inlen + 1)
    IN  [out |-> s.w, err |-> ""]

base16_decode_block(in, inlen, outlen, ignore_garbage_) ==
    LET c == [in |-> in, inlen |-> inlen, outlen |-> outlen,
              ignore_garbage |-> ignore_garbage_]
        s0 == [i |-> 0, j |-> 0, halt |-> FALSE, err |-> "", w |-> <<>>]
        s == Run("base16_decode_block", c, s0, inlen + 1)
    IN  [out |-> s.w, err |-> s.err]

base2_encode_block(in, inlen, outlen, msb_first) ==
    LET c == [in |-> in, inlen |-> inlen, outlen |-> outlen, msb_first |-> msb_first]
        s0 == [i |-> 0, j |-> 0, halt |-> FALSE, err |-> "", w |-> <<>>]
        s == Run("base2_encode_block", c, s0, inlen + 1)
    IN  [out |-> s.w, err |-> ""]

base2_decode_block(in, inlen, outlen, msb_first, ignore_garbage_) ==
    LET c == [in |-> in, inlen |-> inlen, outlen |-> outlen, msb_first |-> msb_first,
              ignore_garbage |-> ignore_garbage_]
        s0 == [i |-> 0, j |-> 0, byte |-> 0, bit_count |-> 0,
               halt |-> FALSE, err |-> "", w |-> <<>>]
        s == Run("base2_decode_block", c, s0, inlen + 1)
    IN  IF s.err # "" THEN [out |-> s.w, err |-> s.err]
        ELSE IF s.bit_count > 0
        THEN [out |-> s.w, err |-> "invalid input: number of bits not a multiple of 8"]
        ELSE [out |-> s.w, err |-> ""]

z85_encode_block(in, inlen, outlen) ==
    LET c == [in |-> in, inlen |-> inlen, outlen |-> outlen]
        s0 == [i |-> 0, j |-> 0, halt |-> FALSE, err |-> "", w |-> <<>>]
        s == Run("z85_encode_block", c, s0, inlen + 1)
    IN  IF inlen % 4 # 0
        THEN [out |-> <<>>,
              err |-> "invalid input: Z85 encoding input length must be a multiple of 4"]
        ELSE [out |-> s.w, err |-> ""]

\* mutant: the length of the block is not tested before the loop
z85_decode_block_unchecked(in, inlen, outlen, ignore_garbage_) ==
    LET c == [in |-> in, inlen |-> inlen, outlen |-> outlen,
              ignore_garbage |-> ignore_garbage_]
        s0 == [i |-> 0, j |-> 0, buffer |-> <<0, 0, 0, 0, 0>>, buffer_size |-> 0,
               halt |-> FALSE, err |-> "", w |-> <<>>]
        s == Run("z85_decode_block", c, s0, inlen + 1)
    IN  IF s.err # "" THEN [out |-> s.w, err |-> s.err]
        ELSE IF s.buffer_size > 0
        THEN [out |-> s.w,
              err |-> "invalid input: Z85 decoding input length must be a multiple of 5"]
        ELSE [out |-> s.w, err |-> ""]

z85_decode_block(in, inlen, outlen, ignore_garbage_) ==
    LET c == [in |-> in, inlen |-> inlen, outlen |-> outlen,
              ignore_garbage |-> ignore_garbage_]
        s0 == [i |-> 0, j |-> 0, buffer |-> <<0, 0, 0, 0, 0>>, buffer_size |-> 0,
               halt |-> FALSE, err |-> "", w |-> <<>>]
        s == Run("z85_decode_block", c, s0, inlen + 1)
    IN  IF inlen % 5 # 0 /\ ~ignore_garbage_
        THEN [out |-> <<>>,
              err |-> "invalid input: Z85 decoding input length must be a multiple of 5"]
        ELSE IF s.err # "" THEN [out |-> s.w, err |-> s.err]
        ELSE IF s.buffer_size > 0
        THEN [out |-> s.w,
              err |-> "invalid input: Z85 decoding input length must be a multiple of 5"]
        ELSE [out |-> s.w, err |-> ""]

(***************************************************************************)
(* The buffers and the codec calls of the drivers                          *)
(***************************************************************************)
\* outbuf_size of do_encode
outbuf_size(type) ==
    CASE type \in {ENC_BASE64, ENC_BASE64URL} -> ((ENC_BLOCKSIZE + 2) \div 3) * 4 + 1
      [] type \in {ENC_BASE32, ENC_BASE32HEX} -> ((ENC_BLOCKSIZE + 4) \div 5) * 8 + 1
      [] type = ENC_BASE16 -> ENC_BLOCKSIZE * 2 + 1
      [] type \in {ENC_BASE2MSBF, ENC_BASE2LSBF} -> ENC_BLOCKSIZE * 8 + 1
      [] type = ENC_Z85 -> ((ENC_BLOCKSIZE + 3) \div 4) * 5 + 1

\* inbuf_size of do_decode
inbuf_size(type) ==
    CASE type \in {ENC_BASE64, ENC_BASE64URL} -> (DEC_BLOCKSIZE * 4) \div 3 + 4
      [] type \in {ENC_BASE32, ENC_BASE32HEX} -> (DEC_BLOCKSIZE * 8) \div 5 + 8
      [] type = ENC_BASE16 -> DEC_BLOCKSIZE * 2 + 2
      [] type \in {ENC_BASE2MSBF, ENC_BASE2LSBF} -> DEC_BLOCKSIZE * 8 + 8
      [] type = ENC_Z85 -> (DEC_BLOCKSIZE * 5) \div 4 + 5


\* the switch of do_encode's loop, were a z85 chunk not a multiple of 4 long
\* cut to its whole groups instead of refused
encode_chunk_cut(type, buf, n) ==
    CASE type = ENC_BASE64 ->
             base64_encode_block(buf, n, outbuf_size(type) - 1, base64_chars)
      [] type = ENC_BASE64URL ->
             base64_encode_block(buf, n, outbuf_size(type) - 1, base64url_chars)
      [] type = ENC_BASE32 ->
             base32_encode_block(buf, n, outbuf_size(type) - 1, base32_chars)
      [] type = ENC_BASE32HEX ->
             base32_encode_block(buf, n, outbuf_size(type) - 1, base32hex_chars)
      [] type = ENC_BASE16 -> base16_encode_block(buf, n, outbuf_size(type) - 1)
      [] type = ENC_BASE2MSBF ->
             base2_encode_block(buf, n, outbuf_size(type) - 1, TRUE)
      [] type = ENC_BASE2LSBF ->
             base2_encode_block(buf, n, outbuf_size(type) - 1, FALSE)
      [] type = ENC_Z85 -> z85_encode_block(buf, n - (n % 4), outbuf_size(type) - 1)

\* the  switch (encoding_type)  of do_encode's loop, on the chunk inbuf[0 .. sum)
encode_chunk(type, buf, n) ==
    CASE type = ENC_BASE64 ->
             base64_encode_block(buf, n, outbuf_size(type) - 1, base64_chars)
      [] type = ENC_BASE64URL ->
             base64_encode_block(buf, n, outbuf_size(type) - 1, base64url_chars)
      [] type = ENC_BASE32 ->
             base32_encode_block(buf, n, outbuf_size(type) - 1, base32_chars)
      [] type = ENC_BASE32HEX ->
             base32_encode_block(buf, n, outbuf_size(type) - 1, base32hex_chars)
      [] type = ENC_BASE16 -> base16_encode_block(buf, n, outbuf_size(type) - 1)
      [] type = ENC_BASE2MSBF ->
             base2_encode_block(buf, n, outbuf_size(type) - 1, TRUE)
      [] type = ENC_BASE2LSBF ->
             base2_encode_block(buf, n, outbuf_size(type) - 1, FALSE)
      [] type = ENC_Z85 ->
             IF n % 4 # 0
             THEN [out |-> <<>>,
                   err |-> "invalid input: Z85 encoding input length must be a multiple of 4"]
             ELSE z85_encode_block(buf, n, outbuf_size(type) - 1)

\* the  switch (encoding_type)  of do_decode's loop, on the chunk inbuf[0 .. sum)
decode_chunk(type, buf, n, ignore_garbage_) ==
    CASE type = ENC_BASE64 ->
             base64_decode_block(buf, n, DEC_BLOCKSIZE, FALSE, ignore_garbage_)
      [] type = ENC_BASE64URL ->
             base64_decode_block(buf, n, DEC_BLOCKSIZE, TRUE, ignore_garbage_)
      [] type = ENC_BASE32 ->
             base32_decode_block(buf, n, DEC_BLOCKSIZE, base32_chars, ignore_garbage_)
      [] type = ENC_BASE32HEX ->
             base32_decode_block(buf, n, DEC_BLOCKSIZE, base32hex_chars, ignore_garbage_)
      [] type = ENC_BASE16 -> base16_decode_block(buf, n, DEC_BLOCKSIZE, ignore_garbage_)
      [] type = ENC_BASE2MSBF ->
             base2_decode_block(buf, n, DEC_BLOCKSIZE, TRUE, ignore_garbage_)
      [] type = ENC_BASE2LSBF ->
             base2_decode_block(buf, n, DEC_BLOCKSIZE, FALSE, ignore_garbage_)
      [] type = ENC_Z85 -> z85_decode_block(buf, n, DEC_BLOCKSIZE, ignore_garbage_)

\* wrap_write: [out, current_column, err], out what reached the stream
wrap_write(buffer, len, wrap_column_, current_column_, budget) ==
    IF wrap_column_ = 0
    THEN LET n == IF budget < 0 THEN len ELSE Min(len, budget)
         IN  IF n < len
             THEN [out |-> SubSeq(buffer, 1, n), current_column |-> current_column_,
                   err |-> "write error"]
             ELSE [out |-> SubSeq(buffer, 1, len),
                   current_column |-> current_column_ + len, err |-> ""]
    ELSE LET c == [buffer |-> buffer, len |-> len, wrap_column |-> wrap_column_]
             s0 == [i |-> 0, current_column |-> current_column_, budget |-> budget,
                    halt |-> FALSE, err |-> "", w |-> <<>>]
             s == Run("wrap_write", c, s0, len + 1)
         IN  [out |-> s.w, current_column |-> s.current_column, err |-> s.err]

\* the trailing line break do_encode writes once the source is exhausted
final_newline(wrap_column_, current_column_, budget) ==
    IF wrap_column_ > 0 /\ current_column_ > 0
    THEN IF budget = 0 THEN [out |-> <<>>, err |-> "write error"]
         ELSE [out |-> <<10>>, err |-> ""]
    ELSE [out |-> <<>>, err |-> ""]

(***************************************************************************)
(* Bounds of the model                                                     *)
(***************************************************************************)
\* the longest byte sequence drawn exhaustively
MaxLen == 5

\* the bytes the sequences are drawn from: 0x00, 'f', 0xFF
ByteVals == {0, 102, 255}

\* what memory past the terminator of a buffer may hold
JunkVals == {0, 65}

\* all sequences over S of length at most n
SeqsUpTo(S, n) == UNION {[1..k -> S] : k \in 0..n}

\* n times the value v
Fill(n, v) == [k \in 1..n |-> v]

(***************************************************************************)
(* The block codecs on their own: a byte sequence is encoded as one block  *)
(* with the buffer do_encode allocates, and the text is decoded as one     *)
(* block the way do_decode calls the decoder (the chunk NUL-terminated in  *)
(* the buffer, DEC_BLOCKSIZE bytes of room for the result).                *)
(***************************************************************************)
\* every single byte, and "Ma"
CodecExamples == {<<b>> : b \in 0..255} \cup {<<77, 97>>}

\* byte sequences: the short ones, the examples, and the ones at the end of
\* the decoder's room
CodecInputs ==
    SeqsUpTo(ByteVals, MaxLen) \cup CodecExamples
        \cup {Fill(DEC_BLOCKSIZE, 0), Fill(DEC_BLOCKSIZE + 1, 0)}

CodecInit ==
    /\ pc = "codec_start"
    /\ decode = FALSE
    /\ ignore_garbage = FALSE
    /\ wrap_column = 0
    /\ encoding_type \in EncodingTypes
    /\ input \in CodecInputs
    /\ source = <<>>
    /\ in_eof = FALSE
    /\ in_err = FALSE
    /\ in_open = FALSE
    /\ inbuf = <<>>
    /\ sum = 0
    /\ outbuf = [out |-> <<>>, err |-> ""]
    /\ current_column = 0
    /\ sink = <<>>
    /\ stderr = ""
    /\ written = [out |-> <<>>, current_column |-> 0, err |-> ""]
    /\ exit_status = "running"

\* the block encoder of the scheme, applied to the whole input
CodecEncode ==
    /\ pc = "codec_start"
    /\ Len(input) <= ENC_BLOCKSIZE
    /\ inbuf' = input
    /\ sum' = Len(input)
    /\ outbuf' = encode_chunk(encoding_type, input, Len(input))
    /\ pc' = "codec_encoded"
    /\ UNCHANGED <<decode, ignore_garbage, wrap_column, encoding_type, input, source,
                   in_eof, in_err, in_open, current_column, sink, stderr, written,
                   exit_status>>

\* the block decoder of the scheme, applied to the encoder's output
CodecDecode ==
    /\ pc = "codec_encoded"
    /\ outbuf.err = ""
    /\ Len(outbuf.out) <= inbuf_size(encoding_type) - 1
    /\ \E junk \in JunkVals :
         /\ inbuf' = outbuf.out \o <<0, junk, junk>>
         /\ sum' = Len(outbuf.out)
         /\ outbuf' = decode_chunk(encoding_type, inbuf', sum', ignore_garbage)
    /\ pc' = "codec_decoded"
    /\ UNCHANGED <<decode, ignore_garbage, wrap_column, encoding_type, input, source,
                   in_eof, in_err, in_open, current_column, sink, stderr, written,
                   exit_status>>

CodecNext == CodecEncode \/ CodecDecode

SpecCodec == CodecInit /\ [][CodecNext]_vars

(***************************************************************************)
(* The wrap writer on its own: wrap_write called with buffers of any       *)
(* length, then the trailing line break at the end of the stream.  input   *)
(* collects the symbols handed to wrap_write.                              *)
(***************************************************************************)
\* the widest wrap column, the longest buffer of one call, the most symbols
\* of one run, and the latest write at which the stream may fail
MaxWrap == 3

MaxBuf == 3

MaxSymbols == 6

MaxBudget == 2

\* the symbols the buffers are filled with: 'A', 'B'
WrapSyms == {65, 66}

Budgets == {-1} \cup 0..MaxBudget

WrapInit ==
    /\ pc = "wrap_write"
    /\ decode = FALSE
    /\ ignore_garbage = FALSE
    /\ wrap_column \in 0..MaxWrap
    /\ encoding_type = ENC_BASE64
    /\ input = <<>>
    /\ source = <<>>
    /\ in_eof = FALSE
    /\ in_err = FALSE
    /\ in_open = FALSE
    /\ inbuf = <<>>
    /\ sum = 0
    /\ outbuf = [out |-> <<>>, err |-> ""]
    /\ current_column = 0
    /\ sink = <<>>
    /\ stderr = ""
    /\ written = [out |-> <<>>, current_column |-> 0, err |-> ""]
    /\ exit_status = "running"

\* one call of wrap_write
WrapWrite ==
    /\ pc = "wrap_write"
    /\ \E len \in 0..MaxBuf, sym \in WrapSyms, budget \in Budgets :
         /\ Len(input) + len <= MaxSymbols
         /\ outbuf' = [out |-> Fill(len, sym), err |-> ""]
         /\ input' = input \o Fill(len, sym)
         /\ written' = wrap_write(outbuf'.out, len, wrap_column, current_column, budget)
         /\ sink' = sink \o written'.out
         /\ current_column' = written'.current_column
         /\ stderr' = written'.err
         /\ exit_status' = IF written'.err # "" THEN "EXIT_FAILURE" ELSE exit_status
         /\ pc' = IF written'.err # "" THEN "exit" ELSE pc
    /\ UNCHANGED <<decode, ignore_garbage, wrap_column, encoding_type, source,
                   in_eof, in_err, in_open, inbuf, sum>>

\* the end of the stream
WrapFinish ==
    /\ pc = "wrap_write"
    /\ \E budget \in Budgets :
         LET r == final_newline(wrap_column, current_column, budget)
         IN  /\ sink' = sink \o r.out
             /\ stderr' = r.err
             /\ exit_status' = IF r.err # "" THEN "EXIT_FAILURE" ELSE "EXIT_SUCCESS"
    /\ pc' = "exit"
    /\ UNCHANGED <<decode, ignore_garbage, wrap_column, encoding_type, input, source,
                   in_eof, in_err, in_open, inbuf, sum, outbuf, current_column, written>>

WrapNext == WrapWrite \/ WrapFinish

SpecWrap == WrapInit /\ [][WrapNext]_vars

\* The lines of a text: the stretches between line breaks; a line break at the
\* very end ends the last line and starts no further one.
LineEnds(text) == {k \in 1..Len(text) : text[k] = 10} \cup {Len(text) + 1}

LineStart(text, e) ==
    IF \E k \in LineEnds(text) : k < e
    THEN (CHOOSE k \in LineEnds(text) : k < e /\ \A m \in LineEnds(text) : m < e => m <= k) + 1
    ELSE 1

\* the lengths of the lines, as a function of the position where each ends
LineLength(text, e) == e - LineStart(text, e)

LastLineEnd(text) ==
    IF text # <<>> /\ text[Len(text)] = 10 THEN Len(text) ELSE Len(text) + 1

\* the ends of the lines of text (none for the empty text)
Lines(text) ==
    IF text = <<>> THEN {}
    ELSE {e \in LineEnds(text) : e <= LastLineEnd(text)}

(***************************************************************************)
(* The source stream.  fread delivers what the stream still holds, up to   *)
(* the request, and sets the end-of-file indicator when it holds less;     *)
(* fault >= 0: the read fails after at most fault bytes and sets the error *)
(* indicator.                                                              *)
(***************************************************************************)
fread(stream, request, fault) ==
    LET avail == Min(request, Len(stream))
        n == IF fault >= 0 THEN Min(fault, avail) ELSE avail
    IN  [data |-> SubSeq(stream, 1, n),
         rest |-> SubSeq(stream, n + 1, Len(stream)),
         eof |-> fault < 0 /\ Len(stream) < request,
         err |-> fault >= 0]

\* the buffer after fresh was stored at its start: what lay beyond stays, and
\* bytes never stored hold junk
Overlay(fresh, old, size, junk) ==
    fresh \o SubSeq(old, Len(fresh) + 1, Len(old))
          \o Fill(Max(0, size - Max(Len(fresh), Len(old))), junk)

\* the read faults: none, or a failure after so many bytes
MaxPartial == 1

Faults == {-1} \cup 0..MaxPartial

\* the wrap column when -w is not given
DefaultWrap == 76

(***************************************************************************)
(* do_encode                                                               *)
(***************************************************************************)
\* block-sized inputs: a block, and up to MaxOver bytes more
MaxOver == 1

\* how far below ENC_BLOCKSIZE the long inputs start
MaxUnder == 2

EncodeInputs ==
    {Fill(n, v) : n \in 0..MaxLen, v \in ByteVals}
        \cup {Fill(ENC_BLOCKSIZE + d, 0) : d \in 0..MaxOver}
        \cup {Fill(ENC_BLOCKSIZE - d, 0) : d \in 1..MaxUnder}

EncodeInit ==
    /\ pc = "encode_read"
    /\ decode = FALSE
    /\ ignore_garbage = FALSE
    /\ wrap_column \in {0, MaxWrap, DefaultWrap}
    /\ encoding_type \in EncodingTypes
    /\ input \in EncodeInputs
    /\ Len(input) >= ENC_BLOCKSIZE - MaxUnder
         => encoding_type \in {ENC_BASE64, ENC_BASE32, ENC_BASE16, ENC_BASE2LSBF, ENC_Z85}
    /\ source = input
    /\ in_eof = FALSE
    /\ in_err = FALSE
    /\ in_open = TRUE
    /\ inbuf = <<>>
    /\ sum = 0
    /\ outbuf = [out |-> <<>>, err |-> ""]
    /\ current_column = 0
    /\ sink = <<>>
    /\ stderr = ""
    /\ written = [out |-> <<>>, current_column |-> 0, err |-> ""]
    /\ exit_status = "running"

\* sum = 0 and one fread of the inner loop, up to the loop test
EncodeRead ==
    /\ pc \in {"encode_read", "encode_read_more"}
    /\ \E fault \in Faults :
         LET sum0 == IF pc = "encode_read" THEN 0 ELSE sum
             r == fread(source, ENC_BLOCKSIZE - sum0, fault)
         IN  /\ inbuf' = SubSeq(inbuf, 1, sum0) \o r.data
                           \o SubSeq(inbuf, sum0 + Len(r.data) + 1, Len(inbuf))
             /\ sum' = sum0 + Len(r.data)
             /\ source' = r.rest
             /\ in_eof' = (in_eof \/ r.eof)
             /\ in_err' = (in_err \/ r.err)
             /\ pc' = IF ~in_eof' /\ ~in_err' /\ sum' < ENC_BLOCKSIZE
                      THEN "encode_read_more" ELSE "encode_block"
    /\ UNCHANGED <<decode, ignore_garbage, wrap_column, encoding_type, input, in_open,
                   outbuf, current_column, sink, stderr, written, exit_status>>

\* if (sum > 0): the switch (encoding_type) of the loop body and the store
\* outbuf[encoded_len] = '\0'.  A store beyond the malloc'ed outbuf_size bytes
\* is undefined: the run goes on, or the process is killed.
EncodeBlock ==
    /\ pc = "encode_block"
    /\ IF sum = 0
       THEN /\ pc' = IF ~in_eof /\ ~in_err /\ sum = ENC_BLOCKSIZE
                     THEN "encode_read" ELSE "encode_finish"
            /\ UNCHANGED <<outbuf, stderr, exit_status>>
       ELSE /\ outbuf' = encode_chunk(encoding_type, inbuf, sum)
            /\ \E crash \in IF Len(outbuf'.out) >= outbuf_size(encoding_type)
                              THEN BOOLEAN ELSE {FALSE} :
                 /\ stderr' = outbuf'.err
                 /\ exit_status' = IF crash THEN "crashed"
                                    ELSE IF outbuf'.err # "" THEN "EXIT_FAILURE"
                                    ELSE exit_status
                 /\ pc' = IF crash \/ outbuf'.err # "" THEN "exit" ELSE "encode_write"
    /\ UNCHANGED <<decode, ignore_garbage, wrap_column, encoding_type, input, source,
                   in_eof, in_err, in_open, inbuf, sum, current_column, sink, written>>

\* the call of wrap_write and the test of the outer loop
EncodeWrite ==
    /\ pc = "encode_write"
    /\ \E budget \in Budgets :
         written' = wrap_write(outbuf.out, Len(outbuf.out), wrap_column, current_column,
                               budget)
    /\ sink' = sink \o written'.out
    /\ current_column' = written'.current_column
    /\ stderr' = written'.err
    /\ exit_status' = IF written'.err # "" THEN "EXIT_FAILURE" ELSE exit_status
    /\ pc' = IF written'.err # "" THEN "exit"
             ELSE IF ~in_eof /\ ~in_err /\ sum = ENC_BLOCKSIZE THEN "encode_read"
             ELSE "encode_finish"
    /\ UNCHANGED <<decode, ignore_garbage, wrap_column, encoding_type, input, source,
                   in_eof, in_err, in_open, inbuf, sum, outbuf>>

\* after the loop: the trailing line break, the read error, fclose, exit
EncodeFinish ==
    /\ pc = "encode_finish"
    /\ \E budget \in Budgets, closed \in BOOLEAN :
         LET nl == final_newline(wrap_column, current_column, budget)
         IN  /\ sink' = sink \o nl.out
             /\ stderr' = IF nl.err # "" THEN nl.err
                          ELSE IF in_err THEN "read error"
                          ELSE IF ~closed THEN "closing standard input"
                          ELSE ""
             /\ in_open' = (nl.err # "" \/ in_err)
             /\ exit_status' = IF stderr' # "" THEN "EXIT_FAILURE" ELSE "EXIT_SUCCESS"
    /\ pc' = "exit"
    /\ UNCHANGED <<decode, ignore_garbage, wrap_column, encoding_type, input, source,
                   in_eof, in_err, inbuf, sum, outbuf, current_column, written>>

EncodeNext == EncodeRead \/ EncodeBlock \/ EncodeWrite \/ EncodeFinish

SpecEncode == EncodeInit /\ [][EncodeNext]_vars

(***************************************************************************)
(* do_decode                                                               *)
(***************************************************************************)
\* the symbols of a scheme, as its encoder writes them
Alphabet(type) ==
    CASE type = ENC_BASE64 -> base64_chars
      [] type = ENC_BASE64URL -> base64url_chars
      [] type = ENC_BASE32 -> base32_chars
      [] type = ENC_BASE32HEX -> base32hex_chars
      [] type = ENC_BASE16 -> hex_chars
      [] type \in {ENC_BASE2MSBF, ENC_BASE2LSBF} -> <<48, 49>>
      [] type = ENC_Z85 -> z85_encoding_chars

\* the longest data whose encoding is an input of the decoder
MaxData == 4

DecodeData == {Fill(n, v) : n \in 0..MaxData, v \in ByteVals}

\* characters put into an encoded text: LF, CR, '"' and '='
NoiseVals == {10, 13, 34, 61}

Insert(text, p, ch) == SubSeq(text, 1, p) \o <<ch>> \o SubSeq(text, p + 1, Len(text))

\* what the encoder of a scheme writes for the data
Encoded(type) ==
    {encode_chunk(type, d, Len(d)).out :
        d \in {e \in DecodeData : encode_chunk(type, e, Len(e)).err = ""}}

\* "QQ==\ngarbage***QQ==" and "QQ==QQ=="
Examples ==
    {<<81, 81, 61, 61, 10, 103, 97, 114, 98, 97, 103, 101, 42, 42, 42, 81, 81, 61, 61>>,
     <<81, 81, 61, 61, 81, 81, 61, 61>>}

DecodeInit ==
    /\ pc = "decode_open"
    /\ decode = TRUE
    /\ ignore_garbage \in BOOLEAN
    /\ wrap_column = DefaultWrap
    /\ encoding_type \in EncodingTypes
    /\ input = <<>>
    /\ source = <<>>
    /\ in_eof = FALSE
    /\ in_err = FALSE
    /\ in_open = FALSE
    /\ inbuf = <<>>
    /\ sum = 0
    /\ outbuf = [out |-> <<>>, err |-> ""]
    /\ current_column = 0
    /\ sink = <<>>
    /\ stderr = ""
    /\ written = [out |-> <<>>, current_column |-> 0, err |-> ""]
    /\ exit_status = "running"

\* main opens the source.  It holds an encoded text, whole or short of its
\* last character, as it is or with one character put in; or an example; or a
\* text that fills the input buffer
DecodeOpen ==
    /\ pc = "decode_open"
    /\ \/ \E d \in DecodeData, short \in 0..1 :
            LET enc == encode_chunk(encoding_type, d, Len(d))
                text == SubSeq(enc.out, 1, Len(enc.out) - short)
            IN  /\ enc.err = ""
                /\ short <= Len(enc.out)
                /\ \/ input' = text
                   \/ \E p \in 0..Len(text), ch \in NoiseVals : input' = Insert(text, p, ch)
       \/ \E text \in Examples : input' = text
       \/ \E d \in 0..MaxOver :
            /\ encoding_type \in {ENC_BASE64, ENC_BASE2MSBF, ENC_Z85}
            /\ input' = Fill(inbuf_size(encoding_type) - 1 + d, Alphabet(encoding_type)[1])
    /\ source' = input'
    /\ in_open' = TRUE
    /\ pc' = "decode_read"
    /\ UNCHANGED <<decode, ignore_garbage, wrap_column, encoding_type, in_eof, in_err,
                   inbuf, sum, outbuf, current_column, sink, stderr, written, exit_status>>

\* sum = 0 and one fread of the inner loop, up to the loop test; once the loop
\* is left, inbuf[sum] = '\0'
DecodeRead ==
    /\ pc \in {"decode_read", "decode_read_more"}
    /\ \E fault \in Faults, junk \in JunkVals :
         LET sum0 == IF pc = "decode_read" THEN 0 ELSE sum
             r == fread(source, inbuf_size(encoding_type) - sum0 - 1, fault)
             more == ~(in_eof \/ r.eof) /\ ~(in_err \/ r.err)
                        /\ sum0 + Len(r.data) < inbuf_size(encoding_type) - 1
             fresh == SubSeq(inbuf, 1, sum0) \o r.data \o (IF more THEN <<>> ELSE <<0>>)
         IN  /\ inbuf' = Overlay(fresh, inbuf, sum0 + Len(r.data) + 3, junk)
             /\ sum' = sum0 + Len(r.data)
             /\ source' = r.rest
             /\ in_eof' = (in_eof \/ r.eof)
             /\ in_err' = (in_err \/ r.err)
             /\ pc' = IF more THEN "decode_read_more" ELSE "decode_block"
    /\ UNCHANGED <<decode, ignore_garbage, wrap_column, encoding_type, input, in_open,
                   outbuf, current_column, sink, stderr, written, exit_status>>

\* mutant: the bytes a failing block decoder had stored are written as well
DecodeBlock_flush ==
    /\ pc = "decode_block"
    /\ IF sum = 0
       THEN /\ pc' = IF ~in_eof /\ ~in_err THEN "decode_read" ELSE "decode_finish"
            /\ UNCHANGED <<outbuf, stderr, exit_status, sink>>
       ELSE /\ outbuf' = decode_chunk(encoding_type, inbuf, sum, ignore_garbage)
            /\ stderr' = outbuf'.err
            /\ exit_status' = IF outbuf'.err # "" THEN "EXIT_FAILURE" ELSE exit_status
            /\ pc' = IF outbuf'.err # "" THEN "exit" ELSE "decode_write"
            /\ sink' = IF outbuf'.err # "" THEN sink \o outbuf'.out ELSE sink
    /\ UNCHANGED <<decode, ignore_garbage, wrap_column, encoding_type, input, source,
                   in_eof, in_err, in_open, inbuf, sum, current_column, written>>

\* if (sum > 0): the switch (encoding_type) of the loop body
DecodeBlock ==
    /\ pc = "decode_block"
    /\ IF sum = 0
       THEN /\ pc' = IF ~in_eof /\ ~in_err THEN "decode_read" ELSE "decode_finish"
            /\ UNCHANGED <<outbuf, stderr, exit_status>>
       ELSE /\ outbuf' = decode_chunk(encoding_type, inbuf, sum, ignore_garbage)
            /\ stderr' = outbuf'.err
            /\ exit_status' = IF outbuf'.err # "" THEN "EXIT_FAILURE" ELSE exit_status
            /\ pc' = IF outbuf'.err # "" THEN "exit" ELSE "decode_write"
    /\ UNCHANGED <<decode, ignore_garbage, wrap_column, encoding_type, input, source,
                   in_eof, in_err, in_open, inbuf, sum, current_column, sink, written>>

\* mutant: the loop goes on to the next read and the chunk is written later
DecodeWrite_deferred ==
    /\ pc = "decode_write"
    /\ \E budget \in Budgets :
         LET n == IF budget < 0 THEN Len(outbuf.out) ELSE Min(budget, Len(outbuf.out))
             last == in_eof \/ in_err
         IN  /\ sink' = IF last THEN sink \o SubSeq(outbuf.out, 1, n) ELSE sink
             /\ stderr' = IF last /\ n < Len(outbuf.out) THEN "write error" ELSE ""
    /\ exit_status' = IF stderr' # "" THEN "EXIT_FAILURE" ELSE exit_status
    /\ pc' = IF stderr' # "" THEN "exit"
             ELSE IF ~in_eof /\ ~in_err THEN "decode_read"
             ELSE "decode_finish"
    /\ UNCHANGED <<decode, ignore_garbage, wrap_column, encoding_type, input, source,
                   in_eof, in_err, in_open, inbuf, sum, outbuf, current_column, written>>

\* fwrite(outbuf, 1, decoded_len, out) and the test of the loop
DecodeWrite ==
    /\ pc = "decode_write"
    /\ \E budget \in Budgets :
         LET n == IF budget < 0 THEN Len(outbuf.out) ELSE Min(budget, Len(outbuf.out))
         IN  /\ sink' = sink \o SubSeq(outbuf.out, 1, n)
             /\ stderr' = IF n < Len(outbuf.out) THEN "write error" ELSE ""
    /\ exit_status' = IF stderr' # "" THEN "EXIT_FAILURE" ELSE exit_status
    /\ pc' = IF stderr' # "" THEN "exit"
             ELSE IF ~in_eof /\ ~in_err THEN "decode_read"
             ELSE "decode_finish"
    /\ UNCHANGED <<decode, ignore_garbage, wrap_column, encoding_type, input, source,
                   in_eof, in_err, in_open, inbuf, sum, outbuf, current_column, written>>

\* after the loop: the read error, fclose, exit
DecodeFinish ==
    /\ pc = "decode_finish"
    /\ \E closed \in BOOLEAN :
         /\ stderr' = IF in_err THEN "read error"
                      ELSE IF ~closed THEN "closing standard input"
                      ELSE ""
         /\ in_open' = in_err
         /\ exit_status' = IF stderr' # "" THEN "EXIT_FAILURE" ELSE "EXIT_SUCCESS"
    /\ pc' = "exit"
    /\ UNCHANGED <<decode, ignore_garbage, wrap_column, encoding_type, input, source,
                   in_eof, in_err, inbuf, sum, outbuf, current_column, sink, written>>

DecodeNext == DecodeOpen \/ DecodeRead \/ DecodeBlock \/ DecodeWrite \/ DecodeFinish

SpecDecode == DecodeInit /\ [][DecodeNext]_vars

(***************************************************************************)
(* The symbol tables: a value looked up in the alphabet of a scheme, and a *)
(* character handed to the test and the value map its block decoder uses   *)
(***************************************************************************)
\* the test by which the block decoder of a scheme takes c for a symbol
is_valid_char(type, c) ==
    CASE type = ENC_BASE64 -> is_base64(c)
      [] type = ENC_BASE64URL -> is_base64url(c)
      [] type = ENC_BASE32 -> base32_char_to_value(c, base32_chars) # -1
      [] type = ENC_BASE32HEX -> base32_char_to_value(c, base32hex_chars) # -1
      [] type = ENC_BASE16 -> base16_char_to_value(c) # -1
      [] type \in {ENC_BASE2MSBF, ENC_BASE2LSBF} -> is_base2(c)
      [] type = ENC_Z85 -> is_z85(c)

\* the value the block decoder of a scheme gives the symbol c
char_to_value(type, c) ==
    CASE type = ENC_BASE64 -> base64_char_to_value(c)
      [] type = ENC_BASE64URL -> base64url_char_to_value(c)
      [] type = ENC_BASE32 -> base32_char_to_value(c, base32_chars)
      [] type = ENC_BASE32HEX -> base32_char_to_value(c, base32hex_chars)
      [] type = ENC_BASE16 -> base16_char_to_value(c)
      [] type \in {ENC_BASE2MSBF, ENC_BASE2LSBF} -> IF c = 49 THEN 1 ELSE 0
      [] type = ENC_Z85 -> At(z85_decoding_table, c - 33)

\* the characters a char can hold, as unsigned codes
CharCodes == 0..255

AlphabetInit ==
    /\ pc = "alphabet_start"
    /\ decode = FALSE
    /\ ignore_garbage = FALSE
    /\ wrap_column = 0
    /\ encoding_type \in EncodingTypes
    /\ input \in {<<x>> : x \in CharCodes}
    /\ source = <<>>
    /\ in_eof = FALSE
    /\ in_err = FALSE
    /\ in_open = FALSE
    /\ inbuf = <<>>
    /\ sum = 0
    /\ outbuf = [out |-> <<>>, err |-> ""]
    /\ current_column = 0
    /\ sink = <<>>
    /\ stderr = ""
    /\ written = [out |-> <<>>, current_column |-> 0, err |-> ""]
    /\ exit_status = "running"

\* input holds a value of the scheme: the encoder's lookup of its symbol
AlphabetSymbol ==
    /\ pc = "alphabet_start"
    /\ input[1] < Len(Alphabet(encoding_type))
    /\ outbuf' = [out |-> <<At(Alphabet(encoding_type), input[1])>>, err |-> ""]
    /\ pc' = "alphabet_symbol"
    /\ UNCHANGED <<decode, ignore_garbage, wrap_column, encoding_type, input, source,
                   in_eof, in_err, in_open, inbuf, sum, current_column, sink, stderr,
                   written, exit_status>>

\* the decoder's test and value map, applied to the symbol just looked up or,
\* from the start, to input taken as a character
AlphabetValue ==
    /\ pc \in {"alphabet_start", "alphabet_symbol"}
    /\ inbuf' = IF pc = "alphabet_start" THEN input ELSE outbuf.out
    /\ outbuf' = IF is_valid_char(encoding_type, inbuf'[1])
                 THEN [out |-> <<char_to_value(encoding_type, inbuf'[1])>>, err |-> ""]
                 ELSE [out |-> <<>>, err |-> "invalid input"]
    /\ pc' = IF pc = "alphabet_start" THEN "alphabet_char_value"
             ELSE "alphabet_symbol_value"
    /\ UNCHANGED <<decode, ignore_garbage, wrap_column, encoding_type, input, source,
                   in_eof, in_err, in_open, sum, current_column, sink, stderr,
                   written, exit_status>>

AlphabetNext == AlphabetSymbol \/ AlphabetValue

SpecAlphabet == AlphabetInit /\ [][AlphabetNext]_vars

(***************************************************************************)
(* Properties                                                              *)
(***************************************************************************)
\* the decoder was handed the encoder's output of input and returned
RoundTripped(types) == pc = "codec_decoded" /\ encoding_type \in types

\* C1: for base64, base64url, base16, base2msbf and base2lsbf, the block
\* decoder applied to the block encoder's output of a byte sequence returns
\* that byte sequence, whatever the sequence.
C1_round_trip ==
    RoundTripped({ENC_BASE64, ENC_BASE64URL, ENC_BASE16, ENC_BASE2MSBF, ENC_BASE2LSBF})
        => outbuf.err = "" /\ outbuf.out = input

\* C2: for base32 and base32hex, base32_decode_block applied to the output of
\* base32_encode_block returns the original bytes, for every length, no byte
\* added and none lost.
C2_base32_round_trip ==
    RoundTripped({ENC_BASE32, ENC_BASE32HEX}) => outbuf.err = "" /\ outbuf.out = input

\* C3: for z85, every byte sequence whose length is a multiple of 4 comes back
\* from z85_decode_block applied to the output of z85_encode_block.
C3_z85_round_trip ==
    (RoundTripped({ENC_Z85}) /\ Len(input) % 4 = 0)
        => outbuf.err = "" /\ outbuf.out = input

\* the number of '=' that end the base32 encoding of n bytes
Base32Pads(n) ==
    CASE n % 5 = 0 -> 0
      [] n % 5 = 1 -> 6
      [] n % 5 = 2 -> 4
      [] n % 5 = 3 -> 3
      [] n % 5 = 4 -> 1

\* C10: the base32 and base32hex encoding of n bytes has exactly 8*ceil(n/5)
\* characters, of which the last 6, 4, 3, 1 (for n mod 5 = 1, 2, 3, 4) are '='
\* and the others are data symbols.
C10_base32_padding ==
    (pc = "codec_encoded" /\ encoding_type \in {ENC_BASE32, ENC_BASE32HEX})
        => /\ Len(outbuf.out) = 8 * ((Len(input) + 4) \div 5)
           /\ \A k \in 1..Len(outbuf.out) :
                outbuf.out[k] = 61 <=> k > Len(outbuf.out) - Base32Pads(Len(input))

\* C4: a z85 encode run over an input whose length is not a multiple of 4 ends
\* with EXIT_FAILURE and never with EXIT_SUCCESS, whatever the length and
\* however the reads split the input.
C4_z85_misaligned_fails ==
    (encoding_type = ENC_Z85 /\ Len(input) % 4 # 0)
        => /\ exit_status # "EXIT_SUCCESS"
           /\ pc = "exit" => exit_status = "EXIT_FAILURE"

\* a z85 run that read all five bytes of its input and refused them
C4_witness ==
    /\ pc = "exit"
    /\ encoding_type = ENC_Z85
    /\ Len(input) = 5
    /\ sum = 5
    /\ ~in_err
    /\ sink = <<>>
    /\ stderr = "invalid input: Z85 encoding input length must be a multiple of 4"
    /\ exit_status = "EXIT_FAILURE"

\* C5: with a wrap column W > 0, after any calls of wrap_write and the final
\* line break, every line of the output but the last has exactly W symbols,
\* the last has between 1 and W, and no symbols give no output.
C5_wrap_invariant ==
    (pc = "exit" /\ exit_status = "EXIT_SUCCESS" /\ wrap_column > 0)
        => /\ input = <<>> => sink = <<>>
           /\ \A e \in Lines(sink) :
                IF e = LastLineEnd(sink)
                THEN LineLength(sink, e) \in 1..wrap_column
                ELSE LineLength(sink, e) = wrap_column

\* five symbols handed over in several calls and wrapped at column 2: two
\* full lines and a last line of one symbol
C5_witness ==
    /\ pc = "exit"
    /\ exit_status = "EXIT_SUCCESS"
    /\ wrap_column = 2
    /\ Len(input) = 5
    /\ Len(outbuf.out) < 5
    /\ Len(sink) = 8
    /\ sink[3] = 10 /\ sink[6] = 10 /\ sink[8] = 10

\* the text without the characters of a set
Strip(text, chars) == SelectSeq(text, LAMBDA ch : ch \notin chars)

Symbols(type) == {Alphabet(type)[k] : k \in 1..Len(Alphabet(type))}

\* '=' ends the data of the base64 and base32 families
Padding(type) ==
    IF type \in {ENC_BASE64, ENC_BASE64URL, ENC_BASE32, ENC_BASE32HEX} THEN {61} ELSE {}

LineBreaks == {10, 13}

Chars(text) == {text[k] : k \in 1..Len(text)}

\* what decoding a text that fits one chunk gives
Decoded(type, text, ignore_garbage_) ==
    decode_chunk(type, text \o <<0, 0, 0>>, Len(text), ignore_garbage_)

\* a decode run of an input that fits one chunk ended, its source and sink
\* having worked
DecodeRan ==
    /\ pc = "exit"
    /\ decode
    /\ ~in_err
    /\ stderr \notin {"write error", "closing standard input"}
    /\ Len(input) < inbuf_size(encoding_type)

\* C6: without ignore-garbage, for every scheme, decoding an encoded text with
\* line breaks (LF, CR) put in succeeds and gives the bytes that decoding the
\* text without the line breaks gives.
C6_line_breaks_insignificant ==
    (/\ DecodeRan
     /\ ~ignore_garbage
     /\ Chars(input) \cap LineBreaks # {}
     /\ Strip(input, LineBreaks) \in Encoded(encoding_type)
     /\ Decoded(encoding_type, Strip(input, LineBreaks), FALSE).err = "")
        => /\ exit_status = "EXIT_SUCCESS"
           /\ sink = Decoded(encoding_type, Strip(input, LineBreaks), FALSE).out

\* the characters ignore-garbage is to skip: all but the symbols of the scheme
\* and the padding
Garbage(type, text) == Chars(text) \ (Symbols(type) \cup Padding(type))

\* C7: with ignore-garbage, for every scheme, decoding an input gives exactly
\* what decoding the input without its non-alphabet characters (other than the
\* '=' of the base64 and base32 families) gives.
C7_garbage_skipped ==
    (DecodeRan /\ ignore_garbage)
        => LET clean == Decoded(encoding_type,
                                Strip(input, Garbage(encoding_type, input)), TRUE)
           IN  /\ exit_status = "EXIT_SUCCESS" <=> clean.err = ""
               /\ clean.err = "" => sink = clean.out

\* C8: without ignore-garbage, for every scheme, decoding an input with a
\* character that is neither a symbol of the scheme, nor a line break, nor the
\* '=' of the base64 and base32 families ends with the invalid-input error,
\* never with success.
C8_garbage_fatal ==
    (/\ DecodeRan
     /\ ~ignore_garbage
     /\ Garbage(encoding_type, input) \ LineBreaks # {})
        => /\ exit_status = "EXIT_FAILURE"
           /\ stderr \in {"invalid input",
                          "invalid input: number of bits not a multiple of 8",
                          "invalid input: Z85 decoding input length must be a multiple of 5"}

\* C9: base2 decoding (msbf and lsbf) ends with EXIT_FAILURE whenever the
\* number of '0' and '1' symbols of the input is not a multiple of 8, with and
\* without ignore-garbage, whatever the length of the input.
C9_base2_misaligned_fails ==
    (/\ pc = "exit"
     /\ decode
     /\ ~in_err
     /\ encoding_type \in {ENC_BASE2MSBF, ENC_BASE2LSBF}
     /\ Len(SelectSeq(input, LAMBDA ch : is_base2(ch))) % 8 # 0)
        => exit_status = "EXIT_FAILURE"

\* the number of '=' that end the base64 encoding of n bytes
Base64Pads(n) == (3 - (n % 3)) % 3

\* C11: the base64 and the base64url encoding of n bytes has exactly
\* 4*ceil(n/3) characters, a short last group being filled up with '='.
C11_base64_padding ==
    (pc = "codec_encoded" /\ encoding_type \in {ENC_BASE64, ENC_BASE64URL})
        => /\ Len(outbuf.out) = 4 * ((Len(input) + 2) \div 3)
           /\ \A k \in 1..Len(outbuf.out) :
                outbuf.out[k] = 61 <=> k > Len(outbuf.out) - Base64Pads(Len(input))

\* the base2 encoder has written the encoding of input
Base2Encoded == pc = "codec_encoded" /\ encoding_type \in {ENC_BASE2MSBF, ENC_BASE2LSBF}

\* the text the other base2 variant writes for input
OtherBase2 ==
    base2_encode_block(input, Len(input), outbuf_size(encoding_type) - 1,
                       encoding_type # ENC_BASE2MSBF).out

\* C12: the base2 encoding of n bytes has exactly 8n characters, all '0' or
\* '1'; msb-first the characters of a byte are its bits from bit 7 down to
\* bit 0, and lsb-first they are the same eight characters in reverse order.
C12_base2_bit_order ==
    Base2Encoded
        => /\ Len(outbuf.out) = 8 * Len(input)
           /\ \A other \in {OtherBase2} :
                /\ Len(other) = 8 * Len(input)
                /\ \A i \in 1..Len(input), k \in 1..8 :
                     /\ outbuf.out[8 * (i - 1) + k] \in {48, 49}
                     /\ outbuf.out[8 * (i - 1) + k] = other[8 * (i - 1) + 9 - k]
                     /\ encoding_type = ENC_BASE2MSBF
                          => outbuf.out[8 * (i - 1) + k]
                               = 48 + ((input[i] \div Pow2(8 - k)) % 2)

\* the byte 0x01 encoded lsb-first: "10000000"
C12_witness ==
    /\ pc = "codec_encoded"
    /\ encoding_type = ENC_BASE2LSBF
    /\ input = <<1>>
    /\ outbuf.out = <<49, 48, 48, 48, 48, 48, 48, 48>>
    /\ OtherBase2 = <<48, 48, 48, 48, 48, 48, 48, 49>>

\* C13: z85 decoding ends with EXIT_FAILURE whenever the number of z85 symbols
\* of the input that are not skipped is not a multiple of 5, with and without
\* ignore-garbage, whatever the length of the input.
C13_z85_misaligned_fails ==
    (/\ pc = "exit"
     /\ decode
     /\ ~in_err
     /\ encoding_type = ENC_Z85
     /\ Len(SelectSeq(input, LAMBDA ch : is_z85(ch))) % 5 # 0)
        => exit_status = "EXIT_FAILURE"

\* the messages of the fatal errors a block decoder raises
DecodeErrors ==
    {"invalid input",
     "invalid input: number of bits not a multiple of 8",
     "invalid input: Z85 decoding input length must be a multiple of 5"}

\* a block decoder raised a fatal error on the chunk in inbuf
DecodeFailed == pc = "exit" /\ decode /\ stderr \in DecodeErrors

\* what the block decoder returns for the chunks of text, a chunk being the
\* inbuf_size - 1 characters the inner loop of do_decode reads
RECURSIVE DecodedChunks(_, _, _)
DecodedChunks(type, text, ig) ==
    IF text = <<>> THEN <<>>
    ELSE LET n == Min(inbuf_size(type) - 1, Len(text))
         IN  decode_chunk(type, SubSeq(text, 1, n) \o <<0>>, n, ig).out
                 \o DecodedChunks(type, SubSeq(text, n + 1, Len(text)), ig)

\* the characters read before the chunk in inbuf
EarlierChunks == SubSeq(input, 1, Len(input) - Len(source) - sum)

\* C14: when a block decoder raises a fatal error on chunk k, the sink holds
\* the decoded bytes of the chunks 1..k-1, one after the other, and nothing
\* else: what was written stays and nothing of chunk k is written.
C14_failed_chunk_not_written ==
    DecodeFailed => sink = DecodedChunks(encoding_type, EarlierChunks, ignore_garbage)

C14_witness ==
    /\ DecodeFailed
    /\ encoding_type = ENC_Z85
    /\ Len(EarlierChunks) = inbuf_size(ENC_Z85) - 1
    /\ Len(sink) = DEC_BLOCKSIZE
    /\ sum = 1

\* C15: a failed read of the source is fatal and nothing follows it: the run
\* ends with EXIT_FAILURE, and once the read has failed no block is encoded or
\* decoded and no byte, data or line break, is written to the sink.
C15_read_failure_immediate ==
    /\ []((pc = "exit" /\ in_err) => exit_status = "EXIT_FAILURE")
    /\ [][in_err => (outbuf' = outbuf /\ sink' = sink)]_vars

\* C16: whenever a driver has ended, with EXIT_SUCCESS or after a fatal error
\* (invalid input, misaligned length, read error, write error), it has closed
\* the source stream.
C16_source_closed_at_exit ==
    (pc = "exit" /\ exit_status \in {"EXIT_SUCCESS", "EXIT_FAILURE"}) => ~in_open

\* the bytes a block encoder takes for one group of symbols
InputGroup(type) ==
    CASE type \in {ENC_BASE64, ENC_BASE64URL} -> 3
      [] type \in {ENC_BASE32, ENC_BASE32HEX} -> 5
      [] type = ENC_BASE16 -> 1
      [] type \in {ENC_BASE2MSBF, ENC_BASE2LSBF} -> 1
      [] type = ENC_Z85 -> 4

\* what the block encoder of a scheme returns for text, with room for all of it
EncodedWhole(type, text) ==
    LET n == Len(text)
        room == 8 * n + 8
    IN  CASE type = ENC_BASE64 -> base64_encode_block(text, n, room, base64_chars).out
          [] type = ENC_BASE64URL -> base64_encode_block(text, n, room, base64url_chars).out
          [] type = ENC_BASE32 -> base32_encode_block(text, n, room, base32_chars).out
          [] type = ENC_BASE32HEX -> base32_encode_block(text, n, room, base32hex_chars).out
          [] type = ENC_BASE16 -> base16_encode_block(text, n, room).out
          [] type = ENC_BASE2MSBF -> base2_encode_block(text, n, room, TRUE).out
          [] type = ENC_BASE2LSBF -> base2_encode_block(text, n, room, FALSE).out
          [] type = ENC_Z85 -> z85_encode_block(text, n, room).out

\* C17: ENC_BLOCKSIZE is a multiple of the input group of every scheme; a chunk
\* that is followed by another read holds whole groups only; and a run of
\* do_encode with wrap_column = 0 that ends with EXIT_SUCCESS has written what
\* the block encoder returns for the whole input as one block.
C17_chunks_hold_whole_groups ==
    /\ \A type \in EncodingTypes : ENC_BLOCKSIZE % InputGroup(type) = 0
    /\ (~decode /\ pc = "encode_read") => sum % InputGroup(encoding_type) = 0
    /\ (~decode /\ pc = "exit" /\ exit_status = "EXIT_SUCCESS" /\ wrap_column = 0)
           => sink = EncodedWhole(encoding_type, input)

\* the characters a block decoder takes for one group of bytes
SymbolGroup(type) ==
    CASE type \in {ENC_BASE64, ENC_BASE64URL} -> 4
      [] type \in {ENC_BASE32, ENC_BASE32HEX} -> 8
      [] type = ENC_BASE16 -> 2
      [] type \in {ENC_BASE2MSBF, ENC_BASE2LSBF} -> 8
      [] type = ENC_Z85 -> 5

\* what the block decoder of a scheme returns for text, with room for all of it
DecodedWhole(type, text, ig) ==
    LET n == Len(text)
        buf == text \o <<0>>
        room == n + 8
    IN  CASE type = ENC_BASE64 -> base64_decode_block(buf, n, room, FALSE, ig)
          [] type = ENC_BASE64URL -> base64_decode_block(buf, n, room, TRUE, ig)
          [] type = ENC_BASE32 -> base32_decode_block(buf, n, room, base32_chars, ig)
          [] type = ENC_BASE32HEX -> base32_decode_block(buf, n, room, base32hex_chars, ig)
          [] type = ENC_BASE16 -> base16_decode_block(buf, n, room, ig)
          [] type = ENC_BASE2MSBF -> base2_decode_block(buf, n, room, TRUE, ig)
          [] type = ENC_BASE2LSBF -> base2_decode_block(buf, n, room, FALSE, ig)
          [] type = ENC_Z85 -> z85_decode_block(buf, n, room, ig)

\* C18: in do_decode a chunk that is followed by another read holds a multiple
\* of the scheme's symbol group (4, 8, 2, 8, 5) of characters, and for an input
\* without line breaks the bytes written are the decoding of the whole input
\* as one block.
C18_chunks_hold_whole_symbol_groups ==
    /\ (decode /\ pc = "decode_read") => sum % SymbolGroup(encoding_type) = 0
    /\ (/\ decode
        /\ pc = "exit"
        /\ ~in_err
        /\ stderr # "write error"
        /\ \A k \in 1..Len(input) : input[k] \notin LineBreaks)
           => \A whole \in {DecodedWhole(encoding_type, input, ignore_garbage)} :
                /\ whole.err = "" <=> exit_status = "EXIT_SUCCESS"
                /\ whole.err = "" => sink = whole.out

\* C19: with wrap_column > 0, whenever a call of wrap_write has returned, the
\* column counter is less than wrap_column, whatever calls came before and
\* whatever the lengths of their buffers.
C19_column_below_wrap ==
    (pc = "wrap_write" /\ wrap_column > 0) => current_column < wrap_column

\* what the block encoder returns for the chunks of text, a chunk being the
\* ENC_BLOCKSIZE bytes the inner loop of do_encode reads
RECURSIVE EncodedChunks(_, _)
EncodedChunks(type, text) ==
    IF text = <<>> THEN <<>>
    ELSE LET n == Min(ENC_BLOCKSIZE, Len(text))
         IN  encode_chunk(type, SubSeq(text, 1, n), n).out
                 \o EncodedChunks(type, SubSeq(text, n + 1, Len(text)))

\* the part of the input that was read
Consumed == SubSeq(input, 1, Len(input) - Len(source))

\* every chunk read so far was transformed and its output is in the sink
ChunksWritten ==
    IF decode
    THEN sink = DecodedChunks(encoding_type, Consumed, ignore_garbage)
    ELSE Strip(sink, {10}) = EncodedChunks(encoding_type, Consumed)

\* the messages of the fatal errors a block codec raises
CodecErrors ==
    DecodeErrors \cup {"invalid input: Z85 encoding input length must be a multiple of 4"}

\* the order of the steps of a driver: read, transform, write, and again
LinearSteps ==
    {<<"decode_open", "decode_read">>}
        \cup {<<d \o "_read", d \o "_read_more">> : d \in {"encode", "decode"}}
        \cup {<<d \o "_read_more", d \o "_read_more">> : d \in {"encode", "decode"}}
        \cup {<<d \o "_read", d \o "_block">> : d \in {"encode", "decode"}}
        \cup {<<d \o "_read_more", d \o "_block">> : d \in {"encode", "decode"}}
        \cup {<<d \o "_block", d \o "_write">> : d \in {"encode", "decode"}}
        \cup {<<d \o "_block", d \o "_read">> : d \in {"encode", "decode"}}
        \cup {<<d \o "_block", d \o "_finish">> : d \in {"encode", "decode"}}
        \cup {<<d \o "_block", "exit">> : d \in {"encode", "decode"}}
        \cup {<<d \o "_write", d \o "_read">> : d \in {"encode", "decode"}}
        \cup {<<d \o "_write", d \o "_finish">> : d \in {"encode", "decode"}}
        \cup {<<d \o "_write", "exit">> : d \in {"encode", "decode"}}
        \cup {<<d \o "_finish", "exit">> : d \in {"encode", "decode"}}

\* a step keeps to the order of the driver
LinearStep == <<pc, pc'>> \in LinearSteps

C21_value_map_inverts_alphabet ==
    /\ pc = "alphabet_symbol_value" => outbuf = [out |-> input, err |-> ""]
    /\ pc = "alphabet_char_value"
           => (outbuf.err = "" <=> input[1] \in Symbols(encoding_type))

\* the z85 block decoder was handed a block of sum characters, line breaks
\* and garbage counted, and sum is not a multiple of 5
Z85RawMisaligned == decode /\ encoding_type = ENC_Z85 /\ sum % 5 # 0

\* the block in inbuf did not get through the decoder: the run ended there
\* with the message of the length test
Z85BlockRejected ==
    /\ pc # "decode_write"
    /\ pc = "exit"
          => /\ exit_status = "EXIT_FAILURE"
             /\ stderr = "invalid input: Z85 decoding input length must be a multiple of 5"

DecodedWithRoom(type, buf, n, ig) ==
    CASE type = ENC_BASE64 -> base64_decode_block(buf, n, n + 8, FALSE, ig)
      [] type = ENC_BASE64URL -> base64_decode_block(buf, n, n + 8, TRUE, ig)
      [] type = ENC_BASE32 -> base32_decode_block(buf, n, n + 8, base32_chars, ig)
      [] type = ENC_BASE32HEX -> base32_decode_block(buf, n, n + 8, base32hex_chars, ig)
      [] type = ENC_BASE16 -> base16_decode_block(buf, n, n + 8, ig)
      [] type = ENC_BASE2MSBF -> base2_decode_block(buf, n, n + 8, TRUE, ig)
      [] type = ENC_BASE2LSBF -> base2_decode_block(buf, n, n + 8, FALSE, ig)
      [] type = ENC_Z85 -> z85_decode_block(buf, n, n + 8, ig)

\* the block decoder was called on the chunk in inbuf and outbuf is its result
ChunkDecoded ==
    /\ decode
    /\ sum > 0
    /\ pc = "decode_write" \/ (pc = "exit" /\ stderr \in DecodeErrors)

\* C23: in do_decode the room of DEC_BLOCKSIZE bytes never stops a block
\* decoder early: for every scheme and every chunk the decoder returns what it
\* returns with room for all bytes of the chunk, the same bytes or the same
\* fatal error, so no byte is dropped and no symbol left unread.
C23_capacity_never_limits ==
    ChunkDecoded
        => \A roomy \in {DecodedWithRoom(encoding_type, inbuf, sum, ignore_garbage)} :
             /\ roomy.err = outbuf.err
             /\ roomy.err = "" => roomy.out = outbuf.out

\* C24: in do_encode, for every scheme and every chunk length, every store
\* into outbuf, the padding and the '\0' at outbuf[encoded_len] included, is
\* at an index below outbuf_size: the encoder returns fewer than outbuf_size
\* characters and the run is not killed by a store out of bounds.
C24_outbuf_stores_in_bounds ==
    (~decode /\ sum > 0 /\ pc \in {"encode_write", "exit"} /\ outbuf.err = "")
        => /\ Len(outbuf.out) < outbuf_size(encoding_type)
           /\ exit_status # "crashed"

====
